---- MODULE Spec2Model ----
(***************************************************************************)
(* Model of the self-calibrating oracle: src/src/simulator.py (Simulator), *)
(* src/src/engine.py (CalibrationEngine) and the way src/main.py drives    *)
(* them.                                                                   *)
(*                                                                         *)
(* Numbers.  Friction values are the integers 0..Den, read as n/Den; the   *)
(* search of calibrate only ever forms dyadic midpoints, which stay exact  *)
(* for DefaultMaxIterations halvings of [0, Den].  Positions, velocities   *)
(* and the tolerance are integers in one common length unit.               *)
(*                                                                         *)
(* pymunk.  The rigid-body solver behind Simulator.step is a library and   *)
(* is not part of the repository.  SpaceStep stands for it: a fixed-step,  *)
(* semi-implicit update with a friction deceleration that grows with the   *)
(* body's friction ("slide"), and a second contact law under which the     *)
(* displacement is not monotone in the friction ("tumble"), because the    *)
(* monotonicity is a property of the solver that the code does not         *)
(* enforce.  The law is fixed when the engine is built.                    *)
(***************************************************************************)
EXTENDS Integers, Sequences, FiniteSets

\* ---------------------------------------------------------------- constants

DefaultMaxIterations == 10
DefaultTolerance == 1
Mass == 10
MaxSteps == 2
MaxCalls == 2
MaxWorldOps == 4

Den == 2 ^ (DefaultMaxIterations + 1)
Sentinel == (-1) * Den

None == << >>
Some(v) == << v >>
Unbound == << >>

Laws == {"slide", "tumble"}
StepCounts == 0 .. MaxSteps
Impulses == { <<10000, 0>>, <<5000, 0>> }
MaxIterationChoices == 0 .. DefaultMaxIterations
Tolerances == {-1, DefaultTolerance, 6}
TruthFrictions == {0, 1, 301, 499, 500, 512, 931, 1000, 1024, 1536, 1843, Den - 1, Den}
RepeatTruthFrictions == {301, 1843}
RepeatIterationChoices == {0, 2}
WorldFrictions == {0, 512, Den}

VARIABLES
    simulation_steps, impulse, calibration_history, law,
    pc, ncalls, ground_truth_x_pos, max_iterations, tolerance,
    low_bound, high_bound, best_guess, i, current_guess, trial_result_x,
    error, result, trial_sim,
    truth, hist0, trial_log, monotone,
    world, world_read, world_trace

engineVars == << simulation_steps, impulse, calibration_history, law >>
frameVars == << pc, ncalls, ground_truth_x_pos, max_iterations, tolerance,
                low_bound, high_bound, best_guess, i, current_guess,
                trial_result_x, error, result, trial_sim >>
ghostVars == << truth, hist0, trial_log, monotone >>
worldVars == << world, world_read, world_trace >>
vars == << engineVars, frameVars, ghostVars, worldVars >>

\* ---------------------------------------------------------------- Simulator

Abs(n) == IF n < 0 THEN -n ELSE n
Max(a, b) == IF a > b THEN a ELSE b
Min(a, b) == IF a < b THEN a ELSE b

\* Mutant of Simulator: the constructor hands out the previous trial's space.
SimulatorReused(friction) ==
    IF trial_sim = None
    THEN [ friction |-> friction, object_body |-> None, clock |-> 0,
           impulse_clock |-> << >> ]
    ELSE [ trial_sim[1] EXCEPT !.friction = friction ]

\* Simulator.__init__: a fresh space whose clock is 0, no tracked body.
\* impulse_clock (the clock values at which an impulse reached the body) is
\* bookkeeping of the model.
Simulator(friction) ==
    [ friction |-> friction, object_body |-> None, clock |-> 0,
      impulse_clock |-> << >> ]

\* Simulator.add_dynamic_box with its default arguments.
AddDynamicBox(sim) ==
    [ sim EXCEPT !.object_body =
        Some([ position |-> <<0, 50>>, velocity |-> <<0, 0>> ]) ]

\* Body.apply_impulse_at_local_point on an unrotated body: dv = impulse / mass.
BodyApplyImpulse(body, imp) ==
    [ body EXCEPT !.velocity = << body.velocity[1] + (imp[1] \div Mass),
                                  body.velocity[2] + (imp[2] \div Mass) >> ]

\* Simulator.apply_impulse
ApplyImpulse(sim, imp) ==
    IF sim.object_body # None
    THEN [ sim EXCEPT !.object_body = Some(BodyApplyImpulse(sim.object_body[1], imp)),
                      !.impulse_clock = Append(sim.impulse_clock, sim.clock) ]
    ELSE sim

\* The deceleration one step of sliding contact takes from the body.
Decel(friction, lw) ==
    IF lw = "tumble" /\ friction > Den \div 2 THEN friction \div 4 ELSE friction

\* One step of the space on the tracked body: friction opposes the tangential
\* velocity and cannot reverse it, then the velocity moves the position.
SpaceStep(body, friction, lw) ==
    LET vx == body.velocity[1]
        d  == Decel(friction, lw)
        nv == IF vx > 0 THEN Max(0, vx - d)
              ELSE IF vx < 0 THEN Min(0, vx + d) ELSE 0
    IN [ body EXCEPT !.velocity = << nv, body.velocity[2] >>,
                     !.position = << body.position[1] + nv, body.position[2] >> ]

\* Simulator.step
Step(sim, lw) ==
    [ sim EXCEPT !.clock = sim.clock + 1,
                 !.object_body =
                    IF sim.object_body = None THEN None
                    ELSE Some(SpaceStep(sim.object_body[1], sim.friction, lw)) ]

\* Mutant of GetObjectState: a position is reported although no body exists.
GetObjectStateOrigin(sim) ==
    IF sim.object_body # None
    THEN Some(sim.object_body[1].position)
    ELSE Some(<<0, 0>>)

\* Simulator.get_object_state
GetObjectState(sim) ==
    IF sim.object_body # None
    THEN Some(sim.object_body[1].position)
    ELSE None

\* for _ in range(n): sim.step()
RECURSIVE StepTimes(_, _, _)
StepTimes(sim, n, lw) ==
    IF n <= 0 THEN sim ELSE StepTimes(Step(sim, lw), n - 1, lw)

\* The x a complete run of main.run_phase_1's ground-truth world ends at.
GroundTruthX(friction, imp, steps, lw) ==
    GetObjectState(
        StepTimes(ApplyImpulse(AddDynamicBox(Simulator(friction)), imp), steps, lw)
    )[1][1]

\* ---------------------------------------------------------------- calibrate

\* Mutant of Midpoint: the division binds to high_bound only.
MidpointPrecedence(lo, hi) == lo + (hi \div 2)

\* current_guess = (low_bound + high_bound) / 2
Midpoint(lo, hi) == (lo + hi) \div 2

\* Mutant of AbsError: the abs() is dropped.
AbsErrorSigned(x, target) == x - target

\* error = abs(trial_result_x - ground_truth_x_pos)
AbsError(x, target) == Abs(x - target)

\* Mutants of Converged: the comparison is strict; the comparison is flipped.
ConvergedStrict(err, tol) == err < tol
ConvergedFlipped(err, tol) == err >= tol

\* if error <= tolerance
Converged(err, tol) == err <= tol

\* Mutants of NextBounds: the two halves are swapped; a tie raises low_bound.
NextBoundsSwapped(lo, hi, guess, x, target) ==
    IF x > target THEN << lo, guess >> ELSE << guess, hi >>
NextBoundsTieLow(lo, hi, guess, x, target) ==
    IF x >= target THEN << guess, hi >> ELSE << lo, guess >>

\* the binary-search update of the two bounds
NextBounds(lo, hi, guess, x, target) ==
    IF x > target THEN << guess, hi >> ELSE << lo, guess >>

\* the record appended to calibration_history
HistoryRecord(idx, guess, err) ==
    [ iteration |-> idx + 1, guess |-> guess, error |-> err ]

\* Mutant of ErrorIsUnbound: `error` is initialised before the loop.
ErrorAlwaysBound(err) == FALSE

\* reading the local `error` after the loop: unbound when no iteration ran
ErrorIsUnbound(err) == err = Unbound

\* Whether the final x of a run with impulse imp and the given step count
\* never increases with the friction, on the whole grid 0..Den.  The variable
\* monotone records it for the engine's configuration, which never changes.
IsMonotone(imp, steps, lw) ==
    \A f \in 0 .. Den - 1 :
        GroundTruthX(f, imp, steps, lw) >= GroundTruthX(f + 1, imp, steps, lw)

Init ==
    /\ simulation_steps \in StepCounts
    /\ impulse \in Impulses
    /\ law \in Laws
    /\ calibration_history = << >>
    /\ pc = "idle"
    /\ ncalls = 0
    /\ ground_truth_x_pos = 0
    /\ max_iterations = 0
    /\ tolerance = DefaultTolerance
    /\ low_bound = 0
    /\ high_bound = Den
    /\ best_guess = Sentinel
    /\ i = 0
    /\ current_guess = 0
    /\ trial_result_x = 0
    /\ error = Unbound
    /\ result = [ kind |-> "none", value |-> 0 ]
    /\ trial_sim = None
    /\ truth = 0
    /\ hist0 = 0
    /\ trial_log = << >>
    /\ monotone = IsMonotone(impulse, simulation_steps, law)
    /\ world = None
    /\ world_read = [ called |-> FALSE, value |-> None ]
    /\ world_trace = << >>

\* The first call on an engine takes every input of the lists above; a later
\* call on the same engine takes one of a shorter list.
TruthChoices == IF ncalls = 0 THEN TruthFrictions ELSE RepeatTruthFrictions
IterationChoices == IF ncalls = 0 THEN MaxIterationChoices ELSE RepeatIterationChoices
ToleranceChoices == IF ncalls = 0 THEN Tolerances ELSE {DefaultTolerance}

\* engine.calibrate(ground_truth_x_pos, max_iterations, tolerance), up to the
\* loop head; the target is the x of a ground-truth run at friction f.
Calibrate ==
    /\ pc = "idle"
    /\ ncalls < MaxCalls
    /\ \E f \in TruthChoices, m \in IterationChoices, t \in ToleranceChoices :
        /\ truth' = f
        /\ ground_truth_x_pos' = GroundTruthX(f, impulse, simulation_steps, law)
        /\ max_iterations' = m
        /\ tolerance' = t
    /\ ncalls' = ncalls + 1
    /\ low_bound' = 0
    /\ high_bound' = Den
    /\ best_guess' = Sentinel
    /\ i' = 0
    /\ error' = Unbound
    /\ result' = [ kind |-> "none", value |-> 0 ]
    /\ hist0' = Len(calibration_history)
    /\ pc' = "loop"
    /\ UNCHANGED << engineVars, current_guess, trial_result_x, trial_sim,
                    trial_log, monotone, worldVars >>

\* for i in range(max_iterations): guess the midpoint, enter _run_trial and
\* construct its Simulator.
LoopIterate ==
    /\ pc = "loop"
    /\ i < max_iterations
    /\ current_guess' = Midpoint(low_bound, high_bound)
    /\ trial_sim' = Some(Simulator(current_guess'))
    /\ pc' = "trial_add"
    /\ UNCHANGED << engineVars, ncalls, ground_truth_x_pos, max_iterations,
                    tolerance, low_bound, high_bound, best_guess, i,
                    trial_result_x, error, result, ghostVars, worldVars >>

\* range(max_iterations) is exhausted
LoopExhausted ==
    /\ pc = "loop"
    /\ i >= max_iterations
    /\ pc' = "exit"
    /\ UNCHANGED << engineVars, ncalls, ground_truth_x_pos, max_iterations,
                    tolerance, low_bound, high_bound, best_guess, i,
                    current_guess, trial_result_x, error, result, trial_sim,
                    ghostVars, worldVars >>

TrialFrame ==
    UNCHANGED << engineVars, ncalls, ground_truth_x_pos, max_iterations,
                 tolerance, low_bound, high_bound, best_guess, i,
                 current_guess, trial_result_x, error, result, ghostVars,
                 worldVars >>

\* trial_sim.add_dynamic_box()
TrialAddBox ==
    /\ pc = "trial_add"
    /\ trial_sim' = Some(AddDynamicBox(trial_sim[1]))
    /\ pc' = "trial_impulse"
    /\ TrialFrame

\* trial_sim.apply_impulse(self.impulse)
TrialApplyImpulse ==
    /\ pc = "trial_impulse"
    /\ trial_sim' = Some(ApplyImpulse(trial_sim[1], impulse))
    /\ pc' = "trial_steps"
    /\ TrialFrame

\* for _ in range(self.simulation_steps): trial_sim.step()
TrialSteps ==
    /\ pc = "trial_steps"
    /\ trial_sim' = Some(StepTimes(trial_sim[1], simulation_steps, law))
    /\ pc' = "trial_read"
    /\ TrialFrame

\* final_state = trial_sim.get_object_state(); return final_state[0]; then the
\* rest of the iteration: error, history record, success test, bound update.
TrialRead ==
    /\ pc = "trial_read"
    /\ LET final_state == GetObjectState(trial_sim[1]) IN
       IF final_state = None
       THEN \* final_state[0] on None: TypeError leaves calibrate
            /\ result' = [ kind |-> "raise", value |-> 0 ]
            /\ pc' = "idle"
            /\ UNCHANGED << calibration_history, trial_result_x, error,
                            best_guess, low_bound, high_bound, i, trial_log >>
       ELSE LET x   == final_state[1][1]
                err == AbsError(x, ground_truth_x_pos)
                nb  == NextBounds(low_bound, high_bound, current_guess, x,
                                  ground_truth_x_pos)
            IN /\ trial_result_x' = x
               /\ error' = Some(err)
               /\ calibration_history' =
                     Append(calibration_history, HistoryRecord(i, current_guess, err))
               /\ trial_log' = Append(trial_log,
                     [ friction |-> trial_sim[1].friction, x |-> x, call |-> ncalls ])
               /\ best_guess' = current_guess
               /\ result' = result
               /\ IF Converged(err, tolerance)
                  THEN /\ pc' = "exit"
                       /\ UNCHANGED << low_bound, high_bound, i >>
                  ELSE /\ low_bound' = nb[1]
                       /\ high_bound' = nb[2]
                       /\ i' = i + 1
                       /\ pc' = "loop"
    /\ UNCHANGED << simulation_steps, impulse, law, ncalls, ground_truth_x_pos,
                    max_iterations, tolerance, current_guess, trial_sim,
                    truth, hist0, monotone, worldVars >>

\* if error > tolerance: ...; return best_guess
Finish ==
    /\ pc = "exit"
    /\ result' = IF ErrorIsUnbound(error)
                 THEN [ kind |-> "raise", value |-> 0 ]
                 ELSE [ kind |-> "return", value |-> best_guess ]
    /\ pc' = "idle"
    /\ UNCHANGED << engineVars, ncalls, ground_truth_x_pos, max_iterations,
                    tolerance, low_bound, high_bound, best_guess, i,
                    current_guess, trial_result_x, error, trial_sim,
                    ghostVars, worldVars >>

Next ==
    \/ Calibrate
    \/ LoopIterate
    \/ LoopExhausted
    \/ TrialAddBox
    \/ TrialApplyImpulse
    \/ TrialSteps
    \/ TrialRead
    \/ Finish

Spec == Init /\ [][Next]_vars

\* ------------------------------------------------- a Simulator driven directly
\* main.run_phase_1 builds Simulators itself and calls their methods; here a
\* client calls them in any order, at most MaxWorldOps calls in all.

WorldFrame(op) ==
    /\ Len(world_trace) < MaxWorldOps
    /\ world_trace' = Append(world_trace, op)
    /\ UNCHANGED << engineVars, frameVars, ghostVars >>

\* Simulator(friction=f)
WorldNew ==
    /\ \E f \in WorldFrictions : world' = Some(Simulator(f))
    /\ world_read' = [ called |-> FALSE, value |-> None ]
    /\ WorldFrame("new")

\* sim.add_dynamic_box()
WorldAddBox ==
    /\ world # None
    /\ world' = Some(AddDynamicBox(world[1]))
    /\ UNCHANGED world_read
    /\ WorldFrame("add_dynamic_box")

\* sim.apply_impulse(imp)
WorldApplyImpulse ==
    /\ world # None
    /\ \E imp \in Impulses : world' = Some(ApplyImpulse(world[1], imp))
    /\ UNCHANGED world_read
    /\ WorldFrame("apply_impulse")

\* sim.step()
WorldStep ==
    /\ world # None
    /\ world' = Some(Step(world[1], law))
    /\ UNCHANGED world_read
    /\ WorldFrame("step")

\* sim.get_object_state()
WorldGetObjectState ==
    /\ world # None
    /\ world_read' = [ called |-> TRUE, value |-> GetObjectState(world[1]) ]
    /\ UNCHANGED world
    /\ WorldFrame("get_object_state")

SimNext ==
    \/ WorldNew
    \/ WorldAddBox
    \/ WorldApplyImpulse
    \/ WorldStep
    \/ WorldGetObjectState

SimSpec == Init /\ [][SimNext]_vars

\* ---------------------------------------------------------------- claims

RECURSIVE Pow2(_)
Pow2(k) == IF k <= 0 THEN 1 ELSE 2 * Pow2(k - 1)

\* The records and trials of the call in progress (or of the last call).
CallHistory == SubSeq(calibration_history, hist0 + 1, Len(calibration_history))
CallLog == SelectSeq(trial_log, LAMBDA r : r.call = ncalls)
Trials == Len(CallLog)
InTrial == pc \in {"trial_add", "trial_impulse", "trial_steps", "trial_read"}
Returned == pc = "idle" /\ result.kind = "return"
Raised == pc = "idle" /\ result.kind = "raise"

\* The trial function of this engine, friction |-> final x.
TrialX(f) == GroundTruthX(f, impulse, simulation_steps, law)
MonotoneNonIncreasing == monotone
OnPlateau(f) ==
    \/ f > 0 /\ TrialX(f - 1) = TrialX(f)
    \/ f < Den /\ TrialX(f + 1) = TrialX(f)
TruthInside == 0 < truth /\ truth < Den
\* The trial function moves by at most the tolerance within 1/2^max_iterations
\* of the true friction.
FlatNearTruth ==
    LET gap == Den \div Pow2(max_iterations) IN
    \A f \in Max(0, truth - gap) .. Min(Den, truth + gap) :
        Abs(TrialX(f) - ground_truth_x_pos) <= tolerance

\* C1 (as stated): for a true friction strictly inside (0,1) and off every
\* plateau, a monotone non-increasing trial function and the defaults
\* max_iterations = 10, tolerance = 1.0, the guess calibrate returns reproduces
\* the target within the tolerance.
C1_ConvergesAsStated ==
    ( /\ Returned
      /\ TruthInside
      /\ max_iterations = DefaultMaxIterations
      /\ tolerance = DefaultTolerance
      /\ Abs(TrialX(result.value) - ground_truth_x_pos) > tolerance )
    => ~ (MonotoneNonIncreasing /\ ~ OnPlateau(truth))

\* C1 (amended): under the same hypotheses, for any max_iterations >= 1 and any
\* tolerance, the returned guess reproduces the target within the tolerance
\* provided the trial function moves by at most the tolerance within
\* 1/2^max_iterations of the true friction.
C1_ConvergesWhenFlat ==
    ( /\ Returned
      /\ TruthInside
      /\ max_iterations >= 1
      /\ Abs(TrialX(result.value) - ground_truth_x_pos) > tolerance )
    => ~ (MonotoneNonIncreasing /\ ~ OnPlateau(truth) /\ FlatNearTruth)

C1_Witness ==
    /\ Returned
    /\ TruthInside
    /\ max_iterations = DefaultMaxIterations
    /\ Trials >= 9
    /\ law = "slide"
    /\ MonotoneNonIncreasing /\ ~ OnPlateau(truth) /\ FlatNearTruth
    /\ ~ (\A f \in 0 .. Den : Abs(TrialX(f) - ground_truth_x_pos) <= tolerance)
    /\ Abs(TrialX(result.value) - ground_truth_x_pos) <= tolerance

\* C2: with a monotone non-increasing trial function, a target produced at a
\* true friction strictly inside (0,1) and a tolerance that is not negative,
\* the guess of iteration k is within 1/2^k of the true friction, for every
\* iteration executed, and the value returned after k iterations is that guess.
C2_GuessesAccurate ==
    LET h == CallHistory IN
    ( /\ ncalls >= 1
      /\ TruthInside
      /\ tolerance >= 0
      /\ \/ \E k \in 1 .. Len(h) : Abs(h[k].guess - truth) * Pow2(k) > Den
         \/ InTrial /\ Abs(current_guess - truth) * Pow2(i + 1) > Den
         \/ Returned /\ Abs(result.value - truth) * Pow2(Trials) > Den )
    => ~ MonotoneNonIncreasing

C2_Witness ==
    /\ Returned
    /\ TruthInside
    /\ tolerance >= 0
    /\ Trials = DefaultMaxIterations
    /\ MonotoneNonIncreasing
    /\ ~ OnPlateau(truth)
    /\ Abs(result.value - truth) * Pow2(Trials) <= Den
    /\ Abs(result.value - truth) * Pow2(Trials) >= Den \div 2

\* C3: for max_iterations >= 1 the loop stops at the first iteration whose
\* error is <= tolerance and runs no trial after it; otherwise it runs exactly
\* max_iterations trials; either way calibrate returns, without raising, the
\* guess of the last iteration executed.
C3_StopRule ==
    LET h == CallHistory
        n == Len(h)
    IN (ncalls >= 1 /\ max_iterations >= 1) =>
        /\ Trials = n
        /\ n <= max_iterations
        /\ \A k \in 1 .. n - 1 : h[k].error > tolerance
        /\ (pc = "loop" \/ InTrial) =>
              /\ n = i
              /\ \A k \in 1 .. n : h[k].error > tolerance
        /\ InTrial => n < max_iterations
        /\ pc \in {"exit", "idle"} =>
              /\ n >= 1
              /\ h[n].error <= tolerance \/ n = max_iterations
              /\ best_guess = h[n].guess
        /\ pc = "idle" => result = [ kind |-> "return", value |-> h[n].guess ]

C3_Witness ==
    /\ Returned
    /\ max_iterations = DefaultMaxIterations
    /\ Trials >= 2
    /\ Trials < max_iterations
    /\ CallHistory[Trials].error = tolerance
    /\ result.value = CallHistory[Trials].guess

\* C4 (as stated): after any calibrate call, also a later one on the same
\* engine, the history holds exactly as many records as that call executed
\* iterations, strictly increasing in `iteration`, with no negative error.
C4_HistoryOfCallOnly ==
    (pc = "idle" /\ ncalls >= 1) =>
        /\ Len(calibration_history) = Trials
        /\ Trials <= Max(0, max_iterations)
        /\ \A j \in 1 .. Len(calibration_history) - 1 :
              calibration_history[j].iteration < calibration_history[j + 1].iteration
        /\ \A j \in 1 .. Len(calibration_history) : calibration_history[j].error >= 0

\* C4 (amended): the history accumulates over the calls on an engine.  Each
\* call appends exactly one record per iteration it executes (at most
\* max_iterations), numbered 1, 2, ... within the call; every error is
\* non-negative; records already present are never modified or removed.
C4_HistoryAppends ==
    /\ [] ( ncalls >= 1 =>
              /\ Len(CallHistory) = Trials
              /\ Trials <= Max(0, max_iterations)
              /\ \A k \in 1 .. Len(CallHistory) : CallHistory[k].iteration = k
              /\ \A j \in 1 .. Len(calibration_history) :
                    calibration_history[j].error >= 0 )
    /\ [][ /\ Len(calibration_history') >= Len(calibration_history)
           /\ SubSeq(calibration_history', 1, Len(calibration_history))
                 = calibration_history ]_vars

C4_Witness ==
    /\ pc = "idle"
    /\ ncalls = 2
    /\ hist0 >= 2
    /\ Trials = 2
    /\ Len(calibration_history) = hist0 + 2
    /\ calibration_history[hist0 + 1].iteration = 1
    /\ calibration_history[hist0].iteration = hist0

\* C5: a call configured with simulation_steps <= 0, max_iterations < 1 or
\* tolerance <= 0 is rejected with an error before any trial runs and leaves
\* no new history record.
C5_FailFast ==
    ( /\ ncalls >= 1
      /\ simulation_steps <= 0 \/ max_iterations < 1 \/ tolerance <= 0 )
    => /\ ~ InTrial
       /\ Trials = 0
       /\ Len(calibration_history) = hist0
       /\ pc = "idle" => result.kind = "raise"

\* C6: a call with max_iterations = 0 runs no trial, appends no record and
\* ends by raising; calibrate never returns the sentinel -1.
C6_ZeroIterations ==
    /\ (ncalls >= 1 /\ max_iterations = 0) =>
          /\ ~ InTrial
          /\ Trials = 0
          /\ Len(calibration_history) = hist0
          /\ pc = "idle" => result.kind = "raise"
    /\ result.kind = "return" => result.value # Sentinel

C6_Witness ==
    /\ Raised
    /\ ncalls >= 1
    /\ max_iterations = 0
    /\ best_guess = Sentinel
    /\ error = Unbound

\* C7: every trial runs on a Simulator built inside it: fresh at construction,
\* one body added at rest, the impulse applied once at clock 0, exactly
\* simulation_steps steps before the read; and any two trials at the same
\* friction, whatever ran in between, give the same x, the x of an independent
\* run at that friction.
C7_TrialIsolation ==
    /\ InTrial =>
          LET s == trial_sim[1] IN
          /\ s.friction = current_guess
          /\ pc = "trial_add" => s = Simulator(current_guess)
          /\ pc = "trial_impulse" =>
                /\ s.clock = 0
                /\ s.impulse_clock = << >>
                /\ s.object_body = Some([ position |-> <<0, 50>>, velocity |-> <<0, 0>> ])
          /\ pc = "trial_steps" => s.clock = 0 /\ s.impulse_clock = <<0>>
          /\ pc = "trial_read" =>
                /\ s.clock = Max(0, simulation_steps)
                /\ s.impulse_clock = <<0>>
                /\ s.object_body # None
    /\ \A j, k \in DOMAIN trial_log :
          trial_log[j].friction = trial_log[k].friction => trial_log[j].x = trial_log[k].x
    /\ \A j \in DOMAIN trial_log : trial_log[j].x = TrialX(trial_log[j].friction)

C7_Witness ==
    /\ pc = "trial_read"
    /\ ncalls = 2
    /\ simulation_steps = MaxSteps
    /\ trial_sim[1].clock = MaxSteps
    /\ \E j \in DOMAIN trial_log :
          /\ trial_log[j].call = 1
          /\ trial_log[j].friction = trial_sim[1].friction
          /\ trial_log[j].friction # Den \div 2
          /\ trial_log[j].x > 0
          /\ trial_log[j].x = GetObjectState(trial_sim[1])[1][1]

\* C8: on a Simulator without a body, after any calls of step and
\* apply_impulse, apply_impulse changes nothing of the Simulator and
\* get_object_state returns None (and changes nothing either).
C8_NoBodySafe ==
    [][ ( /\ world # None
          /\ world[1].object_body = None
          /\ Len(world_trace') = Len(world_trace) + 1 )
        => LET op == world_trace'[Len(world_trace')] IN
           /\ op = "apply_impulse" => world' = world /\ world_read' = world_read
           /\ op = "get_object_state" =>
                 /\ world' = world
                 /\ world_read' = [ called |-> TRUE, value |-> None ]
           /\ op = "step" => world'[1].object_body = None ]_vars

C8_Witness ==
    /\ world # None
    /\ world[1].object_body = None
    /\ world[1].clock >= 1
    /\ world[1].impulse_clock = << >>
    /\ world_trace = << "new", "step", "apply_impulse", "get_object_state" >>
    /\ world_read = [ called |-> TRUE, value |-> None ]

\* C9: the step that ends an iteration changes no bound when the error is
\* within the tolerance; otherwise it changes exactly one: low_bound becomes
\* the guess when the trial's x is above the target, else (a tie included)
\* high_bound becomes the guess.  No other step of a call moves a bound.
C9_BoundUpdate ==
    [][ /\ (pc = "trial_read" /\ pc' \in {"loop", "exit"}) =>
              LET rec == calibration_history'[Len(calibration_history')]
                  x   == trial_result_x'
              IN IF rec.error <= tolerance
                 THEN low_bound' = low_bound /\ high_bound' = high_bound
                 ELSE IF x > ground_truth_x_pos
                 THEN /\ low_bound' = current_guess
                      /\ low_bound' # low_bound
                      /\ high_bound' = high_bound
                 ELSE /\ high_bound' = current_guess
                      /\ high_bound' # high_bound
                      /\ low_bound' = low_bound
        /\ pc \notin {"trial_read", "idle"} =>
              low_bound' = low_bound /\ high_bound' = high_bound ]_vars

C9_Witness ==
    /\ pc = "loop"
    /\ i >= 2
    /\ tolerance < 0
    /\ trial_result_x = ground_truth_x_pos
    /\ high_bound = current_guess
    /\ low_bound > 0

\* C10: while a call is in its loop, 0 <= low_bound < high_bound <= 1 and the
\* interval is 1/2^i wide after i completed iterations; the guess on trial is
\* the midpoint, strictly between the bounds; every friction ever given to a
\* trial is strictly inside (0,1).
C10_SearchInterval ==
    /\ (pc = "loop" \/ InTrial) =>
          /\ 0 <= low_bound /\ low_bound < high_bound /\ high_bound <= Den
          /\ (high_bound - low_bound) * Pow2(i) = Den
    /\ InTrial =>
          /\ 2 * current_guess = low_bound + high_bound
          /\ low_bound < current_guess /\ current_guess < high_bound
          /\ trial_sim[1].friction = current_guess
    /\ \A j \in DOMAIN trial_log : 0 < trial_log[j].friction /\ trial_log[j].friction < Den

C10_Witness ==
    /\ pc = "trial_read"
    /\ i = DefaultMaxIterations - 1
    /\ law = "tumble"
    /\ (high_bound - low_bound) * Pow2(i) = Den
    /\ low_bound > 0 /\ high_bound < Den
    /\ Len(CallLog) = i

====
